---- MODULE Spec2Model ----
(***************************************************************************)
(* Model of obs_necam: the NeCam header translator                         *)
(* (gen3/translators/necam.py) and the gen2 ingest configuration           *)
(* (config/ingest.py).                                                     *)
(*                                                                         *)
(* One translator object wraps one FITS header.  The host calls the        *)
(* recognition predicate and the to_<field> accessors in any order; the    *)
(* accessors decorated with cache_translation keep their result in the     *)
(* translator's cache.  Strings that the code slices, joins, parses or     *)
(* formats are sequences of one-character strings; strings that are only   *)
(* compared are TLA+ strings.                                              *)
(***************************************************************************)
EXTENDS Integers, Sequences, FiniteSets, TLC

VARIABLES header, cache, calls, ncalls, op, ret, first, config, loaded

vars == <<header, cache, calls, ncalls, op, ret, first, config, loaded>>

-----------------------------------------------------------------------------
(* Bounds of the model *)

\* number of calls the host makes on one translator object
MaxCalls == 3
\* DETECTOR header values range over -MaxDetector..MaxDetector (and a few more)
MaxDetector == 12

-----------------------------------------------------------------------------
(* Values *)

EmptyMap == [k \in {} |-> k]

Range(s) == {s[i] : i \in DOMAIN s}

\* a call that returns v / a call that raises exception e
Ok(v) == [ok |-> TRUE, val |-> v, err |-> "none"]
Raise(e) == [ok |-> FALSE, val |-> "none", err |-> e]

DigitChars == <<"0", "1", "2", "3", "4", "5", "6", "7", "8", "9">>

IsDigit(c) == c \in Range(DigitChars)

DigitVal(c) == CHOOSE i \in 0..9 : DigitChars[i + 1] = c

\* int() of a non-empty sequence of digit characters
RECURSIVE DigitsToInt(_)
DigitsToInt(s) ==
    IF Len(s) = 0 THEN 0
    ELSE 10 * DigitsToInt(SubSeq(s, 1, Len(s) - 1)) + DigitVal(s[Len(s)])

AllDigits(s) == \A i \in DOMAIN s : IsDigit(s[i])

\* the decimal digits of n >= 0, most significant first
RECURSIVE DecDigits(_)
DecDigits(n) ==
    IF n < 10 THEN <<DigitChars[n + 1]>>
    ELSE Append(DecDigits(n \div 10), DigitChars[(n % 10) + 1])

\* Python s[a:b] and s[a:] for 0 <= a <= b
PySlice(s, a, b) == SubSeq(s, a + 1, IF b < Len(s) THEN b ELSE Len(s))
PySliceFrom(s, a) == SubSeq(s, a + 1, Len(s))

\* Python sep.join(parts)
RECURSIVE PyJoin(_, _)
PyJoin(sep, parts) ==
    IF Len(parts) = 0 THEN <<>>
    ELSE IF Len(parts) = 1 THEN parts[1]
    ELSE parts[1] \o sep \o PyJoin(sep, Tail(parts))

-----------------------------------------------------------------------------
(* The pieces of astropy the translator calls *)

IsLeap(y) == (y % 4 = 0 /\ y % 100 # 0) \/ y % 400 = 0

DaysInMonth(y, m) ==
    IF m = 2 THEN (IF IsLeap(y) THEN 29 ELSE 28)
    ELSE IF m \in {4, 6, 9, 11} THEN 30 ELSE 31

\* Time(s, format="iso", scale=scale) of a date-only string: "YYYY-MM-DD";
\* anything else that the accessor can build is rejected with ValueError
Time(s, format, scale) ==
    IF /\ format = "iso"
       /\ Len(s) = 10
       /\ s[5] = "-" /\ s[8] = "-"
       /\ AllDigits(SubSeq(s, 1, 4))
       /\ AllDigits(SubSeq(s, 6, 7))
       /\ AllDigits(SubSeq(s, 9, 10))
    THEN LET y == DigitsToInt(SubSeq(s, 1, 4))
             m == DigitsToInt(SubSeq(s, 6, 7))
             d == DigitsToInt(SubSeq(s, 9, 10))
         IN  IF m \in 1..12 /\ d >= 1 /\ d <= DaysInMonth(y, m)
             THEN Ok([scale |-> scale, year |-> y, month |-> m, day |-> d,
                      sod |-> 0])
             ELSE Raise("ValueError")
    ELSE Raise("ValueError")

\* the calendar day after t's
NextDay(t) ==
    IF t.day < DaysInMonth(t.year, t.month)
    THEN [t EXCEPT !.day = @ + 1]
    ELSE IF t.month < 12
    THEN [t EXCEPT !.day = 1, !.month = @ + 1]
    ELSE [t EXCEPT !.day = 1, !.month = 1, !.year = @ + 1]

\* t with its second-of-day carried into the date
RECURSIVE NormTime(_)
NormTime(t) ==
    IF t.sod < 86400 THEN t
    ELSE NormTime(NextDay([t EXCEPT !.sod = @ - 86400]))

\* Time + Quantity; the quantity is converted to seconds
TimeAdd(t, q) ==
    LET secs == IF q.unit = "s" THEN q.value
                ELSE IF q.unit = "min" THEN 60 * q.value
                ELSE 3600 * q.value
    IN  NormTime([t EXCEPT !.sod = @ + secs])

\* u.Quantity(value, unit=unit)
Quantity(value, unit) == [value |-> value, unit |-> unit]

\* a sexagesimal string [sign]AA:BB:CC as a signed count of seconds of its
\* unit, or "bad" when it does not parse
Sexagesimal(s) ==
    LET signed == Len(s) > 0 /\ s[1] \in {"+", "-"}
        body   == IF signed THEN Tail(s) ELSE s
        sign   == IF signed /\ s[1] = "-" THEN -1 ELSE 1
    IN  IF /\ Len(body) = 8
           /\ body[3] = ":" /\ body[6] = ":"
           /\ AllDigits(SubSeq(body, 1, 2))
           /\ AllDigits(SubSeq(body, 4, 5))
           /\ AllDigits(SubSeq(body, 7, 8))
           /\ DigitsToInt(SubSeq(body, 4, 5)) < 60
           /\ DigitsToInt(SubSeq(body, 7, 8)) < 60
        THEN [ok |-> TRUE,
              secs |-> sign * (3600 * DigitsToInt(SubSeq(body, 1, 2))
                               + 60 * DigitsToInt(SubSeq(body, 4, 5))
                               + DigitsToInt(SubSeq(body, 7, 8)))]
        ELSE [ok |-> FALSE, secs |-> 0]

\* an angle of `secs` seconds of `unit`, in arcseconds of degree
ToArcsec(secs, unit) == IF unit = "hourangle" THEN 15 * secs ELSE secs

\* SkyCoord(lon, lat, frame=frame, unit=(lonunit, latunit)): the longitude
\* wraps into [0, 360) degrees, a latitude outside [-90, 90] degrees is
\* rejected
SkyCoord(lon, lat, frame, lonunit, latunit) ==
    LET a == Sexagesimal(lon)
        b == Sexagesimal(lat)
    IN  IF ~a.ok \/ ~b.ok THEN Raise("ValueError")
        ELSE LET ra  == ToArcsec(a.secs, lonunit) % (360 * 3600)
                 dec == ToArcsec(b.secs, latunit)
             IN  IF dec < -(90 * 3600) \/ dec > 90 * 3600
                 THEN Raise("ValueError")
                 ELSE Ok([frame |-> frame, ra |-> ra, dec |-> dec])

\* faulty variant: '{:Wd}'.format(n), which fills with spaces on the left
SpacePadFormat(n, width) ==
    LET sign   == IF n < 0 THEN <<"-">> ELSE <<>>
        digits == DecDigits(IF n < 0 THEN -n ELSE n)
        fill   == width - Len(sign) - Len(digits)
    IN  [i \in 1..(IF fill > 0 THEN fill ELSE 0) |-> " "] \o sign \o digits

\* '{:0Wd}'.format(n) for an integer n: the sign, then zeros, then the
\* digits, W characters at least
ZeroPadFormat(n, width) ==
    LET sign   == IF n < 0 THEN <<"-">> ELSE <<>>
        digits == DecDigits(IF n < 0 THEN -n ELSE n)
        fill   == width - Len(sign) - Len(digits)
    IN  sign \o [i \in 1..(IF fill > 0 THEN fill ELSE 0) |-> "0"] \o digits

-----------------------------------------------------------------------------
(* NeCamTranslator *)

\* the header literal both can_translate and to_instrument compare with
NECAM == "NECAM"

supported_instrument == "NeCam"

\* the methods whose body the model counts the invocations of
Methods == {"to_datetime_begin", "to_datetime_end", "to_tracking_radec",
            "to_instrument", "to_telescope", "to_detector_name",
            "to_exposure_time"}

\* the derived accessors written out in the translator class
Derived == Methods \ {"to_exposure_time"}

\* the translator's mutable state while a call runs: its cache and the
\* number of times each method body has been entered
Enter(name, st) == [st EXCEPT !.calls[name] = @ + 1]

\* cache_translation: the body runs only when the method has no cache entry,
\* and its value is stored; an exception leaves the cache as it was.
\* `run` is the outcome of the body entered from st.
cache_translation(name, run, st) ==
    IF name \in DOMAIN st.cache
    THEN [ret |-> Ok(st.cache[name]), st |-> st]
    ELSE LET r == run
         IN  IF r.ret.ok
             THEN [ret |-> r.ret,
                   st  |-> [r.st EXCEPT !.cache = (name :> r.ret.val) @@ @]]
             ELSE r

\* faulty variant: the comparison uses the class's supported_instrument name
can_translate_name(h) ==
    IF "INSTRUME" \in DOMAIN h
    THEN (IF h["INSTRUME"] = supported_instrument THEN Ok(TRUE) ELSE Ok(FALSE))
    ELSE Ok(FALSE)

can_translate(h) ==
    IF "INSTRUME" \in DOMAIN h
    THEN (IF h["INSTRUME"] = NECAM THEN Ok(TRUE) ELSE Ok(FALSE))
    ELSE Ok(FALSE)

\* _trivial_map["exposure_time"] = ("EXPTIME", dict(unit=u.s))
exposure_time_body(st) ==
    IF "EXPTIME" \notin DOMAIN header
    THEN [ret |-> Raise("KeyError"), st |-> st]
    ELSE [ret |-> Ok(Quantity(header["EXPTIME"], "s")), st |-> st]

to_exposure_time(st) ==
    cache_translation("to_exposure_time",
                      exposure_time_body(Enter("to_exposure_time", st)), st)

\* faulty variant: the day and month slices are joined in the other order
datetime_begin_body_dmy(st) ==
    IF "DATE-OBS" \notin DOMAIN header
    THEN [ret |-> Raise("KeyError"), st |-> st]
    ELSE LET date0 == header["DATE-OBS"]
             date1 == <<PySlice(date0, 0, 4), PySliceFrom(date0, 6),
                        PySlice(date0, 4, 6)>>
             date2 == PyJoin(<<"-">>, date1)
         IN  [ret |-> Time(date2, "iso", "utc"), st |-> st]

datetime_begin_body(st) ==
    IF "DATE-OBS" \notin DOMAIN header
    THEN [ret |-> Raise("KeyError"), st |-> st]
    ELSE LET date0 == header["DATE-OBS"]
             date1 == <<PySlice(date0, 0, 4), PySlice(date0, 4, 6),
                        PySliceFrom(date0, 6)>>
             date2 == PyJoin(<<"-">>, date1)
         IN  [ret |-> Time(date2, "iso", "utc"), st |-> st]

to_datetime_begin(st) ==
    cache_translation("to_datetime_begin",
                      datetime_begin_body(Enter("to_datetime_begin", st)), st)

\* faulty variant: the exposure time is looked up but not added
datetime_end_body_noadd(st) ==
    LET b == to_datetime_begin(st)
    IN  IF ~b.ret.ok THEN b
        ELSE LET e == to_exposure_time(b.st)
             IN  IF ~e.ret.ok THEN e
                 ELSE [ret |-> Ok(b.ret.val), st |-> e.st]

datetime_end_body(st) ==
    LET b == to_datetime_begin(st)
    IN  IF ~b.ret.ok THEN b
        ELSE LET e == to_exposure_time(b.st)
             IN  IF ~e.ret.ok THEN e
                 ELSE [ret |-> Ok(TimeAdd(b.ret.val, e.ret.val)), st |-> e.st]

to_datetime_end(st) ==
    cache_translation("to_datetime_end",
                      datetime_end_body(Enter("to_datetime_end", st)), st)

\* faulty variant: both strings are read as degrees
tracking_radec_body_deg(st) ==
    IF "RA2000" \notin DOMAIN header \/ "DEC2000" \notin DOMAIN header
    THEN [ret |-> Raise("KeyError"), st |-> st]
    ELSE [ret |-> SkyCoord(header["RA2000"], header["DEC2000"], "icrs",
                           "deg", "deg"),
          st  |-> st]

tracking_radec_body(st) ==
    IF "RA2000" \notin DOMAIN header \/ "DEC2000" \notin DOMAIN header
    THEN [ret |-> Raise("KeyError"), st |-> st]
    ELSE [ret |-> SkyCoord(header["RA2000"], header["DEC2000"], "icrs",
                           "hourangle", "deg"),
          st  |-> st]

to_tracking_radec(st) ==
    cache_translation("to_tracking_radec",
                      tracking_radec_body(Enter("to_tracking_radec", st)), st)

\* faulty variant: a missing INSTRUME card falls into the else branch
instrument_body_default(st) ==
    IF "INSTRUME" \in DOMAIN header /\ header["INSTRUME"] = NECAM
    THEN [ret |-> Ok("NeCam"), st |-> st]
    ELSE [ret |-> Ok("Unknown"), st |-> st]

\* faulty variant: the comparison uses the class's supported_instrument name
instrument_body_name(st) ==
    IF "INSTRUME" \notin DOMAIN header
    THEN [ret |-> Raise("KeyError"), st |-> st]
    ELSE IF header["INSTRUME"] = supported_instrument
    THEN [ret |-> Ok("NeCam"), st |-> st]
    ELSE [ret |-> Ok("Unknown"), st |-> st]

instrument_body(st) ==
    IF "INSTRUME" \notin DOMAIN header
    THEN [ret |-> Raise("KeyError"), st |-> st]
    ELSE IF header["INSTRUME"] = NECAM
    THEN [ret |-> Ok("NeCam"), st |-> st]
    ELSE [ret |-> Ok("Unknown"), st |-> st]

to_instrument(st) ==
    cache_translation("to_instrument",
                      instrument_body(Enter("to_instrument", st)), st)

\* not decorated: the body runs on every call
to_telescope(st) == to_instrument(Enter("to_telescope", st))

\* faulty variant: the format pads to three characters
detector_name_body_wide(st) ==
    IF "DETECTOR" \notin DOMAIN header
    THEN [ret |-> Raise("KeyError"), st |-> st]
    ELSE [ret |-> Ok(ZeroPadFormat(header["DETECTOR"], 3)), st |-> st]

detector_name_body(st) ==
    IF "DETECTOR" \notin DOMAIN header
    THEN [ret |-> Raise("KeyError"), st |-> st]
    ELSE [ret |-> Ok(ZeroPadFormat(header["DETECTOR"], 2)), st |-> st]

to_detector_name(st) ==
    cache_translation("to_detector_name",
                      detector_name_body(Enter("to_detector_name", st)), st)

-----------------------------------------------------------------------------
(* config/ingest.py *)

parse_translation ==
    [dataType |-> "IMGTYPE", expTime |-> "EXPTIME", ccd |-> "INSTRUME",
     frameId |-> "RUN-ID", visit |-> "RUN-ID", filter |-> "FILTER",
     field |-> "OBJECT"]

parse_translators ==
    [dateObs |-> "translate_Date", taiObs |-> "translate_Date"]

register_visit == <<"visit", "ccd", "filter", "dateObs", "taiObs">>

register_unique == <<"visit", "ccd", "filter">>

\* faulty variant: the schema keeps the stock column date in place of dateObs
register_columns_stock ==
    [frameId |-> "text", visit |-> "text", ccd |-> "text", filter |-> "text",
     dataType |-> "text", expTime |-> "double", date |-> "text",
     taiObs |-> "text", field |-> "text"]

register_columns ==
    [frameId |-> "text", visit |-> "text", ccd |-> "text", filter |-> "text",
     dataType |-> "text", expTime |-> "double", dateObs |-> "text",
     taiObs |-> "text", field |-> "text"]

\* the configuration before the override file has run: nothing declared yet
EmptyConfig ==
    [parse    |-> [target |-> "ParseTask", translation |-> EmptyMap,
                   translators |-> EmptyMap],
     register |-> [visit |-> <<>>, unique |-> <<>>, columns |-> EmptyMap]]

-----------------------------------------------------------------------------
(* Headers *)

\* a header card that may be missing: no card, or one of the values
Card(key, values) == {EmptyMap} \cup {key :> v : v \in values}

InstrumeValues == {NECAM, supported_instrument, "HSC"}

BaseDate == <<"2", "0", "2", "0", "0", "1", "1", "5">>
BaseRa == <<"1", "0", ":", "3", "0", ":", "0", "0">>
BaseDec == <<"-", "0", "5", ":", "3", "0", ":", "0", "0">>

\* eight-digit dates, calendar dates and not, and two strings of other lengths
DateStrings ==
    {ZeroPadFormat(y, 4) \o ZeroPadFormat(m, 2) \o ZeroPadFormat(d, 2) :
        y \in {2019, 2020}, m \in {0, 2, 4, 12, 13},
        d \in {0, 28, 29, 30, 31, 32}}
    \cup {<<"2", "0", "2", "0", "0", "1">>, <<"2", "0", "2", "0", "0", "1", "1", "5", "0">>}

ExpTimes == {30, 86400}

DetectorValues == (-MaxDetector..MaxDetector) \cup {-100, -10, 99, 100, 999}

RaStrings == {<<"0", "0", ":", "0", "0", ":", "0", "0">>, <<"1", "0", ":", "3", "0", ":", "0", "0">>, <<"2", "3", ":", "5", "9", ":", "5", "9">>, <<"2", "4", ":", "0", "0", ":", "0", "0">>, <<"-", "0", "1", ":", "0", "0", ":", "0", "0">>, <<"1", "0", ":", "6", "1", ":", "0", "0">>}

DecStrings == {<<"-", "0", "5", ":", "3", "0", ":", "0", "0">>, <<"+", "9", "0", ":", "0", "0", ":", "0", "0">>, <<"+", "9", "1", ":", "0", "0", ":", "0", "0">>, <<"1", "2", ":", "0", "0", ":", "0", "0">>, <<"1", "x", ":", "0", "0", ":", "0", "0">>}

\* every subset of the cards, one value each
CardHeaders ==
    {i @@ d @@ e @@ n @@ r @@ c :
        i \in Card("INSTRUME", InstrumeValues),
        d \in Card("DATE-OBS", {BaseDate}),
        e \in Card("EXPTIME", {30}),
        n \in Card("DETECTOR", {3}),
        r \in Card("RA2000", {BaseRa}),
        c \in Card("DEC2000", {BaseDec})}

FullHeader ==
    ("INSTRUME" :> NECAM) @@ ("DATE-OBS" :> BaseDate) @@ ("EXPTIME" :> 30)
    @@ ("DETECTOR" :> 3) @@ ("RA2000" :> BaseRa) @@ ("DEC2000" :> BaseDec)

\* complete headers over the dates and exposure times
DateHeaders ==
    {d @@ e @@ FullHeader :
        d \in {"DATE-OBS" :> v : v \in DateStrings},
        e \in {"EXPTIME" :> v : v \in ExpTimes}}
    \cup {[k \in DOMAIN FullHeader \ {"EXPTIME"} |->
              IF k = "DATE-OBS" THEN v ELSE FullHeader[k]] : v \in DateStrings}

DetectorHeaders == {("DETECTOR" :> v) @@ FullHeader : v \in DetectorValues}

RadecHeaders ==
    {("RA2000" :> r) @@ ("DEC2000" :> c) @@ FullHeader :
        r \in RaStrings, c \in DecStrings}

Headers == CardHeaders \cup DateHeaders \cup DetectorHeaders \cup RadecHeaders

-----------------------------------------------------------------------------
(* The host: one translator object, calls in any order *)

Init ==
    /\ header \in Headers
    /\ cache = EmptyMap
    /\ calls = [m \in Methods |-> 0]
    /\ ncalls = 0
    /\ op = "none"
    /\ ret = Ok("none")
    /\ first = EmptyMap
    /\ config = EmptyConfig
    /\ loaded = FALSE

\* the host calls method `name`, which runs as r; a call that raised has
\* ended the ingest of this file, and the host makes no further call
Call(name, r) ==
    /\ ncalls < MaxCalls
    /\ ret.ok
    /\ ncalls' = ncalls + 1
    /\ cache' = r.st.cache
    /\ calls' = r.st.calls
    /\ op' = name
    /\ ret' = r.ret
    /\ first' = IF name \in DOMAIN first THEN first ELSE (name :> r.ret) @@ first
    /\ UNCHANGED <<header, config, loaded>>

Self == [cache |-> cache, calls |-> calls]

CanTranslate ==
    Call("can_translate", [ret |-> can_translate(header), st |-> Self])

ToExposureTime == Call("to_exposure_time", to_exposure_time(Self))

ToDatetimeBegin == Call("to_datetime_begin", to_datetime_begin(Self))

ToDatetimeEnd == Call("to_datetime_end", to_datetime_end(Self))

ToTrackingRadec == Call("to_tracking_radec", to_tracking_radec(Self))

ToInstrument == Call("to_instrument", to_instrument(Self))

ToTelescope == Call("to_telescope", to_telescope(Self))

ToDetectorName == Call("to_detector_name", to_detector_name(Self))

\* the host executes the override file config/ingest.py
LoadIngestConfig ==
    /\ ~loaded
    /\ config' =
         [parse    |-> [target |-> "NecamParseTask",
                        translation |-> parse_translation,
                        translators |-> parse_translators],
          register |-> [visit |-> register_visit, unique |-> register_unique,
                        columns |-> register_columns]]
    /\ loaded' = TRUE
    /\ UNCHANGED <<header, cache, calls, ncalls, op, ret, first>>

Next ==
    \/ CanTranslate
    \/ ToExposureTime
    \/ ToDatetimeBegin
    \/ ToDatetimeEnd
    \/ ToTrackingRadec
    \/ ToInstrument
    \/ ToTelescope
    \/ ToDetectorName
    \/ LoadIngestConfig

Spec == Init /\ [][Next]_vars

-----------------------------------------------------------------------------
(* Properties *)

Has(key) == key \in DOMAIN header

\* an eight-digit string YYYYMMDD that names a day of the calendar
IsDate8(d) ==
    /\ Len(d) = 8
    /\ AllDigits(d)
    /\ DigitsToInt(SubSeq(d, 5, 6)) \in 1..12
    /\ DigitsToInt(SubSeq(d, 7, 8)) \in
         1..DaysInMonth(DigitsToInt(SubSeq(d, 1, 4)), DigitsToInt(SubSeq(d, 5, 6)))

\* the Julian day number of a calendar date
DayNumber(y, m, d) ==
    LET a  == (14 - m) \div 12
        yy == y + 4800 - a
        mm == m + 12 * a - 3
    IN  d + ((153 * mm + 2) \div 5) + 365 * yy + (yy \div 4) - (yy \div 100)
          + (yy \div 400) - 32045

\* a Time as seconds since 2000-01-01 00:00
AbsSeconds(t) ==
    86400 * (DayNumber(t.year, t.month, t.day) - DayNumber(2000, 1, 1)) + t.sod

\* C1: can_translate returns True for every header whose INSTRUME card is
\* the token NECAM, and returns False, raising nothing, for every header
\* with another INSTRUME value or with no INSTRUME card.
C1_Recognition ==
    op = "can_translate" =>
        /\ ret.ok
        /\ (Has("INSTRUME") /\ header["INSTRUME"] = "NECAM") => ret.val = TRUE
        /\ (~Has("INSTRUME") \/ header["INSTRUME"] # "NECAM") => ret.val = FALSE

C1_Witness ==
    /\ op = "can_translate"
    /\ Has("INSTRUME")
    /\ header["INSTRUME"] = "NECAM"
    /\ ret.ok /\ ret.val = TRUE

\* C2: for a DATE-OBS of form YYYYMMDD, to_datetime_begin returns the UTC
\* time of the calendar date whose year is characters 1-4, month characters
\* 5-6 and day characters 7-8 of DATE-OBS.
C2_DateBegin ==
    (op = "to_datetime_begin" /\ Has("DATE-OBS") /\ IsDate8(header["DATE-OBS"])) =>
        /\ ret.ok
        /\ ret.val.scale = "utc"
        /\ ret.val.year = DigitsToInt(SubSeq(header["DATE-OBS"], 1, 4))
        /\ ret.val.month = DigitsToInt(SubSeq(header["DATE-OBS"], 5, 6))
        /\ ret.val.day = DigitsToInt(SubSeq(header["DATE-OBS"], 7, 8))
        /\ ret.val.sod = 0

C2_Witness ==
    /\ op = "to_datetime_begin"
    /\ Has("DATE-OBS")
    /\ IsDate8(header["DATE-OBS"])
    /\ ret.ok
    /\ ret.val.month = 12 /\ ret.val.day = 31

\* C3: with a valid DATE-OBS and an EXPTIME, to_datetime_end returns
\* to_datetime_begin's time plus EXPTIME seconds, whichever of the two
\* accessors is called first.
C3_DateEnd ==
    /\ (op = "to_datetime_end" /\ Has("DATE-OBS") /\ IsDate8(header["DATE-OBS"])
          /\ Has("EXPTIME")) => ret.ok
    /\ (op = "to_datetime_end" /\ ret.ok) =>
          /\ "to_datetime_begin" \in DOMAIN cache
          /\ AbsSeconds(ret.val) =
               AbsSeconds(cache["to_datetime_begin"]) + header["EXPTIME"]
    /\ (op = "to_datetime_begin" /\ ret.ok /\ "to_datetime_end" \in DOMAIN first
          /\ first["to_datetime_end"].ok) =>
          AbsSeconds(first["to_datetime_end"].val) =
              AbsSeconds(ret.val) + header["EXPTIME"]
    /\ (op = "to_datetime_end" /\ ret.ok /\ "to_datetime_begin" \in DOMAIN first
          /\ first["to_datetime_begin"].ok) =>
          AbsSeconds(ret.val) =
              AbsSeconds(first["to_datetime_begin"].val) + header["EXPTIME"]

C3_Witness ==
    /\ op = "to_datetime_end"
    /\ ret.ok
    /\ "to_datetime_begin" \in DOMAIN first
    /\ header["EXPTIME"] = 86400
    /\ ret.val.day = 1 /\ ret.val.month = 1

\* C4: for a DETECTOR that is one digit d (0..9), to_detector_name returns
\* the two characters "0" and d.
C4_SingleDigit ==
    (op = "to_detector_name" /\ Has("DETECTOR") /\ header["DETECTOR"] \in 0..9) =>
        /\ ret.ok
        /\ ret.val = <<"0", DigitChars[header["DETECTOR"] + 1]>>

C4_Witness ==
    /\ op = "to_detector_name"
    /\ Has("DETECTOR")
    /\ header["DETECTOR"] = 3
    /\ ret.ok
    /\ ret.val = <<"0", "3">>

\* C5: once the ingest configuration is loaded, every key of
\* config.register.visit and of config.register.unique is a key of
\* config.register.columns.
C5_KeysInSchema ==
    loaded =>
        \A k \in Range(config.register.visit) \cup Range(config.register.unique) :
            k \in DOMAIN config.register.columns

C5_Witness ==
    /\ loaded
    /\ Len(config.register.visit) = 5
    /\ Len(config.register.unique) = 3

\* the header cards each accessor reads
Reads ==
    [to_datetime_begin |-> {"DATE-OBS"},
     to_datetime_end   |-> {"DATE-OBS", "EXPTIME"},
     to_tracking_radec |-> {"RA2000", "DEC2000"},
     to_instrument     |-> {"INSTRUME"},
     to_telescope      |-> {"INSTRUME"},
     to_detector_name  |-> {"DETECTOR"}]

MissesCard == op \in DOMAIN Reads /\ \E k \in Reads[op] : ~Has(k)

C7_Original ==
    /\ \A m \in Derived : calls[m] <= 1
    /\ op \in Derived => (ret.ok = first[op].ok /\ ret.val = first[op].val)

\* C8 as stated: for every integer DETECTOR the name has two characters.
C8_Original ==
    (op = "to_detector_name" /\ Has("DETECTOR")) => (ret.ok /\ Len(ret.val) = 2)

\* C8, amended: to_detector_name pads to a minimum width, it does not fix
\* the width: the name has two characters exactly when DETECTOR is in
\* -9..99, and more than two for every other integer.
C8_MinimumWidth ==
    (op = "to_detector_name" /\ Has("DETECTOR")) =>
        /\ ret.ok
        /\ Len(ret.val) >= 2
        /\ Len(ret.val) = 2 <=> header["DETECTOR"] \in -9..99

C8_Witness ==
    /\ op = "to_detector_name"
    /\ Has("DETECTOR")
    /\ header["DETECTOR"] = 100
    /\ ret.ok
    /\ ret.val = <<"1", "0", "0">>

\* the seconds a sexagesimal string [sign]AA:BB:CC counts, read from its end
SexaSeconds(s) ==
    LET n == Len(s)
        v == 3600 * (10 * DigitVal(s[n - 7]) + DigitVal(s[n - 6]))
               + 60 * (10 * DigitVal(s[n - 4]) + DigitVal(s[n - 3]))
               + 10 * DigitVal(s[n - 1]) + DigitVal(s[n])
    IN  IF s[1] = "-" THEN -v ELSE v

C10_UnknownUnreachable ==
    /\ (op \in {"to_instrument", "to_telescope"} /\ can_translate(header).val) =>
          (ret.ok /\ ret.val = "NeCam")
    /\ (op \in {"to_instrument", "to_telescope"} /\ ret.ok /\ ret.val = "Unknown") =>
          (Has("INSTRUME") /\ ~can_translate(header).val)

C10_Witness ==
    /\ op = "to_telescope"
    /\ "can_translate" \in DOMAIN first
    /\ first["can_translate"].val = TRUE
    /\ "to_instrument" \in DOMAIN first
    /\ ret.ok
    /\ ret.val = "NeCam"

====
